---- MODULE Spec2Model ----
(***************************************************************************)
(* Model of part2/calc2.py: the Interpreter class (lexer + left-to-right   *)
(* evaluator) and the read-evaluate-print loop main().                     *)
(*                                                                         *)
(* A line is a sequence of characters, a character being a one-character   *)
(* string, or the name of its code point when it is not ASCII.  Python's   *)
(* 0-based index self.pos is kept 0-based; text[pos] of the code is        *)
(* text[pos + 1] here.                                                     *)
(* Python values are records: None, an int [type, num], or a float held as *)
(* the IEEE 754 double it is: [type, sign, mant, exp] stands for           *)
(* sign * mant * 2^exp, mant being the 53 bits of the significand, most    *)
(* significant first (the empty sequence for 0.0 and -0.0).  Every float   *)
(* operation rounds its exact result to the nearest double, ties to even,  *)
(* as the code's do.  Lines of the lengths explored stay far from the      *)
(* exponent range of a double (no inf, no subnormal) and from the range of *)
(* the model's integers.                                                   *)
(* The field self.tokens is assigned once, to an empty list, and never     *)
(* read: it is left out.                                                   *)
(* expr() is modelled statement group by statement group (expr_while,      *)
(* expr_first, expr_op, expr_right, expr_apply), each call of eat() and    *)
(* get_next_token() being part of the step that makes it.                  *)
(***************************************************************************)
EXTENDS Integers, Sequences, FiniteSets, TLC

\* ------------------------------------------------------------------ bounds
\* Longest line given to a stand-alone Interpreter (specification Spec).
MaxLen == 5
\* Longest line of Spec that holds a non-ASCII decimal digit.
MaxWideLen == 3
\* Longest line typed at the prompt, and number of input() calls, in SpecMain.
MaxMainLen == 3
MaxLines == 3

\* The characters lines are made of: one whitespace character, three ASCII
\* decimal digits, the four operator characters, one character of no token,
\* and "U+00B2", SUPERSCRIPT TWO: a character str.isdigit() accepts that is no
\* decimal digit, so that int() rejects it.
Alphabet == {" ", "0", "1", "2", "+", "-", "*", "/", "@", "U+00B2"}

\* Alphabet and "U+0663", ARABIC-INDIC DIGIT THREE: a decimal digit that is
\* not ASCII; str.isdigit() accepts it and int() reads it as 3.
WideAlphabet == Alphabet \cup {"U+0663"}

Lines(n) == UNION {[1..k -> Alphabet] : k \in 0..n}

WideLines(n) == UNION {[1..k -> WideAlphabet] : k \in 0..n}

\* ------------------------------------------------------------- token types
INTEGER == "INTEGER"
TIMES == "TIMES"
DIVIDE == "DIVIDE"
PLUS == "PLUS"
MINUS == "MINUS"
EOF == "EOF"

None == "None"

Token(type, value) == [type |-> type, value |-> value]

\* self.current_token = None, before the first token is fetched
NoToken == [type |-> None, value |-> None]

\* ----------------------------------------------------------- Python values
PyNone == [type |-> "NoneType"]

PyInt(n) == [type |-> "int", num |-> n]

\* the float sign * mant * 2^exp
PyFloat(sign, mant, exp) ==
    [type |-> "float", sign |-> sign, mant |-> mant, exp |-> exp]

\* 0.0 and -0.0
FloatZero(sign) == PyFloat(sign, <<>>, 0)

Abs(n) == IF n < 0 THEN -n ELSE n

Sign(n) == IF n < 0 THEN -1 ELSE 1

\* Natural numbers too large for the model's integers are written in base 2,
\* as sequences of bits, or in base 1024, as sequences of limbs, the most
\* significant digit first; leading zeros are allowed.
Zeros(n) == IF n <= 0 THEN <<>> ELSE [i \in 1..n |-> 0]

BitsOf(n) == [i \in 1..31 |-> (n \div 2^(31 - i)) % 2]

LimbsOf(b) ==
    LET n == (Len(b) + 9) \div 10
        p == Zeros(10 * n - Len(b)) \o b
    IN  IF n = 0 THEN <<>>
        ELSE [k \in 1..n |->
                 LET o == 10 * (k - 1)
                 IN  p[o + 1] * 512 + p[o + 2] * 256 + p[o + 3] * 128 + p[o + 4] * 64
                     + p[o + 5] * 32 + p[o + 6] * 16 + p[o + 7] * 8 + p[o + 8] * 4
                     + p[o + 9] * 2 + p[o + 10]]

BitsOfLimbs(l) ==
    IF l = <<>> THEN <<>>
    ELSE [i \in 1..(10 * Len(l)) |->
             (l[(i - 1) \div 10 + 1] \div 2^(9 - ((i - 1) % 10))) % 2]

\* l * n for 0 <= n < 2^20
RECURSIVE LimbsMulLoop(_, _, _, _, _)
LimbsMulLoop(l, i, n, carry, out) ==
    IF i = 0 THEN <<carry \div 1024, carry % 1024>> \o out
    ELSE LET t == l[i] * n + carry
         IN  LimbsMulLoop(l, i - 1, n, t \div 1024, <<t % 1024>> \o out)

LimbsMul(l, n) == LimbsMulLoop(l, Len(l), n, 0, <<>>)

\* quotient and remainder of l by q, for 0 < q < 2^20
RECURSIVE LimbsDivLoop(_, _, _, _, _)
LimbsDivLoop(l, i, q, rem, out) ==
    IF i > Len(l) THEN [quot |-> out, rem |-> rem]
    ELSE LET r == rem * 1024 + l[i]
         IN  LimbsDivLoop(l, i + 1, q, r % q, Append(out, r \div q))

LimbsDivMod(l, q) == LimbsDivLoop(l, 1, q, 0, <<>>)

\* a + b, a - b (for a >= b) and a < b, for a and b of one length
RECURSIVE LimbsAddLoop(_, _, _, _, _)
LimbsAddLoop(a, b, i, carry, out) ==
    IF i = 0 THEN <<carry>> \o out
    ELSE LET t == a[i] + b[i] + carry
         IN  LimbsAddLoop(a, b, i - 1, t \div 1024, <<t % 1024>> \o out)

LimbsAdd(a, b) == LimbsAddLoop(a, b, Len(a), 0, <<>>)

RECURSIVE LimbsSubLoop(_, _, _, _, _)
LimbsSubLoop(a, b, i, borrow, out) ==
    IF i = 0 THEN out
    ELSE LET t == a[i] - b[i] - borrow
         IN  LimbsSubLoop(a, b, i - 1, IF t < 0 THEN 1 ELSE 0, <<t % 1024>> \o out)

LimbsSub(a, b) == LimbsSubLoop(a, b, Len(a), 0, <<>>)

LimbsLess(a, b) ==
    \E i \in 1..Len(a) : a[i] < b[i] /\ \A j \in 1..(i - 1) : a[j] = b[j]

\* RoundBits with a slip: the bits after the 53rd are cut off, not rounded
RoundBits_Chop(sign, b, inexact, e) ==
    LET lead == CHOOSE i \in 1..Len(b) : b[i] = 1 /\ \A j \in 1..(i - 1) : b[j] = 0
        c == b \o Zeros(54)
    IN  PyFloat(sign, SubSeq(c, lead, lead + 52), e + Len(b) - (lead + 52))

\* The double nearest to sign * b * 2^e, ties to even, for a non-zero number b
\* in bits; inexact says that b is a quotient cut off below its last bit.
\* top is the 53 bits from the leading 1 on; the result is top or top + 1.
RoundBits(sign, b, inexact, e) ==
    LET lead == CHOOSE i \in 1..Len(b) : b[i] = 1 /\ \A j \in 1..(i - 1) : b[j] = 0
        c == b \o Zeros(54)
        top == SubSeq(c, lead, lead + 52)
        sticky == inexact \/ \E i \in (lead + 54)..Len(b) : b[i] = 1
        up == c[lead + 53] = 1 /\ (sticky \/ top[53] = 1)
        exp == e + Len(b) - (lead + 52)
    IN  IF ~up THEN PyFloat(sign, top, exp)
        ELSE IF \A i \in 1..53 : top[i] = 1
        THEN PyFloat(sign, <<1>> \o Zeros(52), exp + 1)
        ELSE PyFloat(sign,
                     [i \in 1..53 |->
                         IF \A j \in (i + 1)..53 : top[j] = 1 THEN 1 - top[i] ELSE top[i]],
                     exp)

\* bits a dividend is extended by, so that its quotient by a divisor below
\* 2^20 has more than 54 significant bits
Scale == 75

\* the double nearest to sign * (P / Q) * 2^k, for P # 0 in bits and 0 < Q < 2^20
RoundToDouble(sign, P, Q, k) ==
    LET d == LimbsDivMod(LimbsOf(P \o Zeros(Scale)), Q)
    IN  RoundBits(sign, BitsOfLimbs(d.quot), d.rem # 0, k - Scale)

\* float(n) for an int n, as the arithmetic operators convert an int operand
float(n) ==
    IF n = 0 THEN FloatZero(1) ELSE RoundBits(Sign(n), BitsOf(Abs(n)), FALSE, 0)

\* a + n (sn = 1) and a - n (sn = -1) for a float a and an int n >= 0: the sum
\* of a and sn * n is computed exactly, in units of 2^e, and rounded;
\* x - x is 0.0, -0.0 + 0 is 0.0 and -0.0 - 0 is -0.0
FloatSum(a, sn, n) ==
    IF a.mant = <<>>
    THEN IF n = 0 THEN FloatZero(IF sn = 1 THEN 1 ELSE a.sign) ELSE float(sn * n)
    ELSE IF n = 0 THEN a
    ELSE LET e == IF a.exp < 0 THEN a.exp ELSE 0
             xb == a.mant \o Zeros(a.exp - e)
             nb == BitsOf(n) \o Zeros(0 - e)
             w == IF Len(xb) > Len(nb) THEN Len(xb) ELSE Len(nb)
             X == LimbsOf(Zeros(w - Len(xb)) \o xb)
             N == LimbsOf(Zeros(w - Len(nb)) \o nb)
         IN  IF a.sign = sn THEN RoundBits(sn, BitsOfLimbs(LimbsAdd(X, N)), FALSE, e)
             ELSE IF X = N THEN FloatZero(1)
             ELSE IF LimbsLess(N, X)
             THEN RoundBits(a.sign, BitsOfLimbs(LimbsSub(X, N)), FALSE, e)
             ELSE RoundBits(sn, BitsOfLimbs(LimbsSub(N, X)), FALSE, e)

\* bool(v) with a slip: only positive numbers are true
Truthy_Positive(v) ==
    \/ v.type = "int" /\ v.num > 0
    \/ v.type = "float" /\ v.mant # <<>> /\ v.sign = 1

\* bool(v): None, 0, 0.0 and -0.0 are false
Truthy(v) ==
    \/ v.type = "int" /\ v.num # 0
    \/ v.type = "float" /\ v.mant # <<>>

\* left_val * right.value, + and -, right.value being an int >= 0: int with
\* int gives the exact int, a float gives the rounded float
PyMul(a, n) ==
    IF a.type = "int" THEN PyInt(a.num * n)
    ELSE IF a.mant = <<>> \/ n = 0 THEN FloatZero(a.sign)
    ELSE RoundBits(a.sign, BitsOfLimbs(LimbsMul(LimbsOf(a.mant), n)), FALSE, a.exp)

PyAdd(a, n) ==
    IF a.type = "int" THEN PyInt(a.num + n) ELSE FloatSum(a, 1, n)

PySub(a, n) ==
    IF a.type = "int" THEN PyInt(a.num - n) ELSE FloatSum(a, -1, n)

\* left_val / right.value for right.value > 0: true division, always a float,
\* the double nearest to the quotient
PyTrueDiv(a, n) ==
    IF a.type = "int"
    THEN IF a.num = 0 THEN FloatZero(1)
         ELSE RoundToDouble(Sign(a.num), BitsOf(Abs(a.num)), n, 0)
    ELSE IF a.mant = <<>> THEN a
    ELSE RoundToDouble(a.sign, a.mant, n, a.exp)

\* ------------------------------------------------------------ exceptions
\* no exception
NoExc == [type |-> "none"]

\* Exception('Error parsing input')
ParseError == [type |-> "Exception", message |-> "Error parsing input"]

\* its message depends on the type of the dividend and is left out
ZeroDivisionError == [type |-> "ZeroDivisionError"]

\* the exception of int(): its message quotes the string int() was given
ValueError(literal) ==
    [type |-> "ValueError", message |-> "invalid literal for int() with base 10",
     literal |-> literal]

\* ------------------------------------------------------- character classes
\* isspace with a slip: no character counts as whitespace
isspace_Never(c) == FALSE

\* str.isspace() on a character of WideAlphabet
isspace(c) == c \in {" "}

\* the decimal digits: the ASCII ones and, in WideAlphabet, U+0663
DigitChars == <<"0", "1", "2", "3", "4", "5", "6", "7", "8", "9">>

isdecimal(c) == c = "U+0663" \/ \E i \in 1..Len(DigitChars) : DigitChars[i] = c

\* str.isdigit() on a character of WideAlphabet: true of the decimal digits
\* and of other digit characters, as U+00B2
isdigit(c) == isdecimal(c) \/ c = "U+00B2"

DigitValue(c) ==
    IF c = "U+0663" THEN 3
    ELSE (CHOOSE i \in 1..Len(DigitChars) : DigitChars[i] = c) - 1

\* the base-10 value of a string of decimal digits
RECURSIVE DecimalValue(_)
DecimalValue(str) ==
    IF str = <<>> THEN 0
    ELSE DecimalValue(SubSeq(str, 1, Len(str) - 1)) * 10 + DigitValue(str[Len(str)])

\* int(result) for a non-empty string of characters str.isdigit() accepts:
\* the value, or ValueError when one of them is no decimal digit
int(str) ==
    IF \A i \in 1..Len(str) : isdecimal(str[i])
    THEN [value |-> DecimalValue(str), exc |-> NoExc]
    ELSE [value |-> 0, exc |-> ValueError(str)]

\* ------------------------------------------------------------- Interpreter
\* Interpreter.__init__ on a non-empty line, and the entry of expr(): a record
\* of the Interpreter's fields (text, pos, current_token, current_char), the
\* locals of expr() (result, left_val, op, right) and the position in expr():
\*   pc      "while", "first", "op", "right", "apply", "returned", "raised"
\*   retval  the value expr() returned
\*   exc     the exception that left expr()
\*   errsite the function that raised it (the innermost frame of its traceback)
\*   iters   iterations of the while loop begun so far
NewInterpreter(line) ==
    [text |-> line, pos |-> 0, current_token |-> NoToken, current_char |-> line[1],
     result |-> PyNone, left_val |-> PyNone, op |-> NoToken, right |-> NoToken,
     pc |-> "while", retval |-> PyNone, exc |-> NoExc, errsite |-> None, iters |-> 0]

advance(s) ==
    LET p == s.pos + 1
    IN  [s EXCEPT !.pos = p,
                  !.current_char = IF p > Len(s.text) - 1 THEN None ELSE s.text[p + 1]]

\* skip_whitespace with a slip: one more advance() after the whitespace
RECURSIVE skip_whitespace_Extra(_)
skip_whitespace_Extra(s) ==
    IF s.current_char # None /\ isspace(s.current_char)
    THEN skip_whitespace_Extra(advance(s))
    ELSE advance(s)

RECURSIVE skip_whitespace(_)
skip_whitespace(s) ==
    IF s.current_char # None /\ isspace(s.current_char)
    THEN skip_whitespace(advance(s))
    ELSE s
\* the while loop of integer(): result is the string of digits read so far
RECURSIVE integer_loop(_, _)
integer_loop(s, result) ==
    IF s.current_char # None /\ isdigit(s.current_char)
    THEN integer_loop(advance(s), Append(result, s.current_char))
    ELSE [self |-> s, result |-> result]

\* integer(): the interpreter after the call, and the value returned or the
\* exception int() raised
integer(s) ==
    LET r == integer_loop(s, <<>>)
        v == int(r.result)
    IN  [self |-> r.self, value |-> v.value, exc |-> v.exc]

\* get_next_token with a slip: a character of no token is skipped
RECURSIVE get_next_token_SkipsUnknown(_)
get_next_token_SkipsUnknown(s) ==
    IF s.current_char = None
    THEN [self |-> s, token |-> Token(EOF, None), exc |-> NoExc, site |-> None]
    ELSE IF isspace(s.current_char)
    THEN get_next_token_SkipsUnknown(skip_whitespace(s))
    ELSE IF isdigit(s.current_char)
    THEN LET r == integer(s)
         IN  IF r.exc # NoExc
             THEN [self |-> r.self, token |-> NoToken, exc |-> r.exc, site |-> "integer"]
             ELSE [self |-> r.self, token |-> Token(INTEGER, r.value),
                   exc |-> NoExc, site |-> None]
    ELSE IF s.current_char = "*"
    THEN [self |-> advance(s), token |-> Token(TIMES, "*"), exc |-> NoExc, site |-> None]
    ELSE IF s.current_char = "/"
    THEN [self |-> advance(s), token |-> Token(DIVIDE, "/"), exc |-> NoExc, site |-> None]
    ELSE IF s.current_char = "+"
    THEN [self |-> advance(s), token |-> Token(PLUS, "+"), exc |-> NoExc, site |-> None]
    ELSE IF s.current_char = "-"
    THEN [self |-> advance(s), token |-> Token(MINUS, "-"), exc |-> NoExc, site |-> None]
    ELSE get_next_token_SkipsUnknown(advance(s))

\* get_next_token with a slip: the end of the text falls through to error()
RECURSIVE get_next_token_ErrorAtEnd(_)
get_next_token_ErrorAtEnd(s) ==
    IF s.current_char = None
    THEN [self |-> s, token |-> NoToken, exc |-> ParseError, site |-> "get_next_token"]
    ELSE IF isspace(s.current_char)
    THEN get_next_token_ErrorAtEnd(skip_whitespace(s))
    ELSE IF isdigit(s.current_char)
    THEN LET r == integer(s)
         IN  IF r.exc # NoExc
             THEN [self |-> r.self, token |-> NoToken, exc |-> r.exc, site |-> "integer"]
             ELSE [self |-> r.self, token |-> Token(INTEGER, r.value),
                   exc |-> NoExc, site |-> None]
    ELSE IF s.current_char = "*"
    THEN [self |-> advance(s), token |-> Token(TIMES, "*"), exc |-> NoExc, site |-> None]
    ELSE IF s.current_char = "/"
    THEN [self |-> advance(s), token |-> Token(DIVIDE, "/"), exc |-> NoExc, site |-> None]
    ELSE IF s.current_char = "+"
    THEN [self |-> advance(s), token |-> Token(PLUS, "+"), exc |-> NoExc, site |-> None]
    ELSE IF s.current_char = "-"
    THEN [self |-> advance(s), token |-> Token(MINUS, "-"), exc |-> NoExc, site |-> None]
    ELSE [self |-> s, token |-> NoToken, exc |-> ParseError, site |-> "get_next_token"]

\* get_next_token with a slip: the plus sign is returned without advance()
RECURSIVE get_next_token_PlusNoAdvance(_)
get_next_token_PlusNoAdvance(s) ==
    IF s.current_char = None
    THEN [self |-> s, token |-> Token(EOF, None), exc |-> NoExc, site |-> None]
    ELSE IF isspace(s.current_char)
    THEN get_next_token_PlusNoAdvance(skip_whitespace(s))
    ELSE IF isdigit(s.current_char)
    THEN LET r == integer(s)
         IN  IF r.exc # NoExc
             THEN [self |-> r.self, token |-> NoToken, exc |-> r.exc, site |-> "integer"]
             ELSE [self |-> r.self, token |-> Token(INTEGER, r.value),
                   exc |-> NoExc, site |-> None]
    ELSE IF s.current_char = "*"
    THEN [self |-> advance(s), token |-> Token(TIMES, "*"), exc |-> NoExc, site |-> None]
    ELSE IF s.current_char = "/"
    THEN [self |-> advance(s), token |-> Token(DIVIDE, "/"), exc |-> NoExc, site |-> None]
    ELSE IF s.current_char = "+"
    THEN [self |-> s, token |-> Token(PLUS, "+"), exc |-> NoExc, site |-> None]
    ELSE IF s.current_char = "-"
    THEN [self |-> advance(s), token |-> Token(MINUS, "-"), exc |-> NoExc, site |-> None]
    ELSE [self |-> s, token |-> NoToken, exc |-> ParseError, site |-> "get_next_token"]

\* get_next_token with a slip: an integer is read without moving the cursor
RECURSIVE get_next_token_Peek(_)
get_next_token_Peek(s) ==
    IF s.current_char = None
    THEN [self |-> s, token |-> Token(EOF, None), exc |-> NoExc, site |-> None]
    ELSE IF isspace(s.current_char)
    THEN get_next_token_Peek(skip_whitespace(s))
    ELSE IF isdigit(s.current_char)
    THEN LET r == integer(s)
         IN  IF r.exc # NoExc
             THEN [self |-> r.self, token |-> NoToken, exc |-> r.exc, site |-> "integer"]
             ELSE [self |-> s, token |-> Token(INTEGER, r.value),
                   exc |-> NoExc, site |-> None]
    ELSE IF s.current_char = "*"
    THEN [self |-> advance(s), token |-> Token(TIMES, "*"), exc |-> NoExc, site |-> None]
    ELSE IF s.current_char = "/"
    THEN [self |-> advance(s), token |-> Token(DIVIDE, "/"), exc |-> NoExc, site |-> None]
    ELSE IF s.current_char = "+"
    THEN [self |-> advance(s), token |-> Token(PLUS, "+"), exc |-> NoExc, site |-> None]
    ELSE IF s.current_char = "-"
    THEN [self |-> advance(s), token |-> Token(MINUS, "-"), exc |-> NoExc, site |-> None]
    ELSE [self |-> s, token |-> NoToken, exc |-> ParseError, site |-> "get_next_token"]

\* get_next_token with a slip: a character of no token ends the input
RECURSIVE get_next_token_EOFOnUnknown(_)
get_next_token_EOFOnUnknown(s) ==
    IF s.current_char = None
    THEN [self |-> s, token |-> Token(EOF, None), exc |-> NoExc, site |-> None]
    ELSE IF isspace(s.current_char)
    THEN get_next_token_EOFOnUnknown(skip_whitespace(s))
    ELSE IF isdigit(s.current_char)
    THEN LET r == integer(s)
         IN  IF r.exc # NoExc
             THEN [self |-> r.self, token |-> NoToken, exc |-> r.exc, site |-> "integer"]
             ELSE [self |-> r.self, token |-> Token(INTEGER, r.value),
                   exc |-> NoExc, site |-> None]
    ELSE IF s.current_char = "*"
    THEN [self |-> advance(s), token |-> Token(TIMES, "*"), exc |-> NoExc, site |-> None]
    ELSE IF s.current_char = "/"
    THEN [self |-> advance(s), token |-> Token(DIVIDE, "/"), exc |-> NoExc, site |-> None]
    ELSE IF s.current_char = "+"
    THEN [self |-> advance(s), token |-> Token(PLUS, "+"), exc |-> NoExc, site |-> None]
    ELSE IF s.current_char = "-"
    THEN [self |-> advance(s), token |-> Token(MINUS, "-"), exc |-> NoExc, site |-> None]
    ELSE [self |-> s, token |-> Token(EOF, None), exc |-> NoExc, site |-> None]

\* get_next_token: the interpreter after the call, the token returned, and the
\* exception raised instead (then token is meaningless) with the function that
\* raised it
RECURSIVE get_next_token(_)
get_next_token(s) ==
    IF s.current_char = None
    THEN [self |-> s, token |-> Token(EOF, None), exc |-> NoExc, site |-> None]
    ELSE IF isspace(s.current_char)
    THEN get_next_token(skip_whitespace(s))
    ELSE IF isdigit(s.current_char)
    THEN LET r == integer(s)
         IN  IF r.exc # NoExc
             THEN [self |-> r.self, token |-> NoToken, exc |-> r.exc, site |-> "integer"]
             ELSE [self |-> r.self, token |-> Token(INTEGER, r.value),
                   exc |-> NoExc, site |-> None]
    ELSE IF s.current_char = "*"
    THEN [self |-> advance(s), token |-> Token(TIMES, "*"), exc |-> NoExc, site |-> None]
    ELSE IF s.current_char = "/"
    THEN [self |-> advance(s), token |-> Token(DIVIDE, "/"), exc |-> NoExc, site |-> None]
    ELSE IF s.current_char = "+"
    THEN [self |-> advance(s), token |-> Token(PLUS, "+"), exc |-> NoExc, site |-> None]
    ELSE IF s.current_char = "-"
    THEN [self |-> advance(s), token |-> Token(MINUS, "-"), exc |-> NoExc, site |-> None]
    ELSE [self |-> s, token |-> NoToken, exc |-> ParseError, site |-> "get_next_token"]
\* eat(token_type): the interpreter after the call, the exception raised and
\* the function that raised it
eat(s, token_type) ==
    IF s.current_token.type = token_type
    THEN LET r == get_next_token(s)
         IN  IF r.exc # NoExc
             THEN [self |-> r.self, exc |-> r.exc, site |-> r.site]
             ELSE [self |-> [r.self EXCEPT !.current_token = r.token],
                   exc |-> NoExc, site |-> None]
    ELSE [self |-> s, exc |-> ParseError, site |-> "eat"]

OperatorTypes == {TIMES, DIVIDE, PLUS, MINUS}

\* an exception leaves expr(): the interpreter stays as the failing call left it
Raise(s, e, site) == [s EXCEPT !.pc = "raised", !.exc = e, !.errsite = site]

\* line 120 and lines 124-125, or line 156: the loop test, then either the
\* return or the choice between the two ways of getting the left operand
expr_while(s) ==
    IF s.current_token.type # None /\ s.current_token.type = EOF
    THEN [s EXCEPT !.pc = "returned", !.retval = s.result]
    ELSE IF Truthy(s.result)
    THEN [s EXCEPT !.iters = @ + 1, !.left_val = s.result, !.pc = "op"]
    ELSE [s EXCEPT !.iters = @ + 1, !.pc = "first"]

\* lines 127-130: fetch a token, require it to be an INTEGER, keep its value
expr_first(s) ==
    LET r == get_next_token(s)
    IN  IF r.exc # NoExc
        THEN Raise(r.self, r.exc, r.site)
        ELSE LET left == r.token
                 e == eat([r.self EXCEPT !.current_token = r.token], INTEGER)
             IN  IF e.exc # NoExc
                 THEN Raise(e.self, e.exc, e.site)
                 ELSE [e.self EXCEPT !.left_val = PyInt(left.value), !.pc = "op"]

\* lines 133-141: the pending token is taken as the operator, and eaten if it
\* is one of the four operators
expr_op(s) ==
    LET t == [s EXCEPT !.op = s.current_token]
    IN  IF t.op.type \in OperatorTypes
        THEN LET e == eat(t, t.op.type)
             IN  IF e.exc # NoExc
                 THEN Raise(e.self, e.exc, e.site)
                 ELSE [e.self EXCEPT !.pc = "right"]
        ELSE [t EXCEPT !.pc = "right"]

\* expr_right with a slip: at EOF the left operand is returned as the result
expr_right_AcceptsEOF(s) ==
    IF s.current_token.type = EOF
    THEN [s EXCEPT !.right = s.current_token, !.result = s.left_val, !.pc = "while"]
    ELSE LET t == [s EXCEPT !.right = s.current_token]
             e == eat(t, INTEGER)
         IN  IF e.exc # NoExc
             THEN Raise(e.self, e.exc, e.site)
             ELSE [e.self EXCEPT !.pc = "apply"]

\* lines 144-145: the pending token is the right operand and must be an INTEGER
expr_right(s) ==
    LET t == [s EXCEPT !.right = s.current_token]
        e == eat(t, INTEGER)
    IN  IF e.exc # NoExc
        THEN Raise(e.self, e.exc, e.site)
        ELSE [e.self EXCEPT !.pc = "apply"]

\* lines 147-154: the operation is applied; dividing by 0 raises, and nothing
\* is assigned to result when op is none of the four operators
expr_apply(s) ==
    IF s.op.type = TIMES
    THEN [s EXCEPT !.result = PyMul(s.left_val, s.right.value), !.pc = "while"]
    ELSE IF s.op.type = DIVIDE
    THEN IF s.right.value = 0
         THEN Raise(s, ZeroDivisionError, "expr")
         ELSE [s EXCEPT !.result = PyTrueDiv(s.left_val, s.right.value), !.pc = "while"]
    ELSE IF s.op.type = PLUS
    THEN [s EXCEPT !.result = PyAdd(s.left_val, s.right.value), !.pc = "while"]
    ELSE IF s.op.type = MINUS
    THEN [s EXCEPT !.result = PySub(s.left_val, s.right.value), !.pc = "while"]
    ELSE [s EXCEPT !.pc = "while"]

Finished(s) == s.pc \in {"returned", "raised"}

expr_step(s) ==
    CASE s.pc = "while" -> expr_while(s)
      [] s.pc = "first" -> expr_first(s)
      [] s.pc = "op" -> expr_op(s)
      [] s.pc = "right" -> expr_right(s)
      [] s.pc = "apply" -> expr_apply(s)

\* one pass of the while loop from its test at s (lines 120-154): up to the
\* next test of the loop, the return or the exception
RECURSIVE expr_iteration(_)
expr_iteration(s) ==
    LET t == expr_step(s)
    IN  IF t.pc \in {"while", "returned", "raised"} THEN t ELSE expr_iteration(t)

\* expr() run to its end from s
RECURSIVE expr_run(_)
expr_run(s) == IF Finished(s) THEN s ELSE expr_run(expr_step(s))

\* Interpreter(line).expr() for a non-empty line
expr(line) == expr_run(NewInterpreter(line))

\* what the caller of a finished expr() sees: whether it returned or raised,
\* the value returned and the exception raised
Outcome(s) == [pc |-> s.pc, retval |-> s.retval, exc |-> s.exc]

\* --------------------------------------------------------------- the state
VARIABLES
    text,        \* the line: the local text of main(), which is also the
                 \* field text of the Interpreter built on it
    pos, current_char, current_token,         \* the Interpreter's other fields
    result, left_val, op, right,              \* the locals of expr()
    pc,          \* where expr() is, as in NewInterpreter; "idle" when main()
                 \* has no Interpreter
    retval,      \* the value expr() returned
    exc,         \* the exception expr() raised
    errsite,     \* the function that raised it
    iters,       \* iterations of the while loop of expr() begun so far
    mainpc,      \* where main() is: "input", "expr", "exited", "crashed"
    stdout,      \* the values printed so far
    nread        \* calls of input() that returned a line so far

mvars == <<mainpc, stdout, nread>>
vars == <<text, pos, current_char, current_token, result, left_val, op, right,
          pc, retval, exc, errsite, iters, mainpc, stdout, nread>>

Self ==
    [text |-> text, pos |-> pos, current_token |-> current_token,
     current_char |-> current_char, result |-> result, left_val |-> left_val,
     op |-> op, right |-> right, pc |-> pc, retval |-> retval, exc |-> exc,
     errsite |-> errsite, iters |-> iters]

\* the Interpreter and the frame of expr() become s
SetSelf(s) ==
    /\ text' = s.text
    /\ pos' = s.pos
    /\ current_char' = s.current_char
    /\ current_token' = s.current_token
    /\ result' = s.result
    /\ left_val' = s.left_val
    /\ op' = s.op
    /\ right' = s.right
    /\ pc' = s.pc
    /\ retval' = s.retval
    /\ exc' = s.exc
    /\ errsite' = s.errsite
    /\ iters' = s.iters

\* the Interpreter and the frame of expr() are s, in an initial state
IsSelf(s) ==
    /\ text = s.text
    /\ pos = s.pos
    /\ current_char = s.current_char
    /\ current_token = s.current_token
    /\ result = s.result
    /\ left_val = s.left_val
    /\ op = s.op
    /\ right = s.right
    /\ pc = s.pc
    /\ retval = s.retval
    /\ exc = s.exc
    /\ errsite = s.errsite
    /\ iters = s.iters

ExprWhile == pc = "while" /\ SetSelf(expr_while(Self)) /\ UNCHANGED mvars

ExprFirst == pc = "first" /\ SetSelf(expr_first(Self)) /\ UNCHANGED mvars

ExprOp == pc = "op" /\ SetSelf(expr_op(Self)) /\ UNCHANGED mvars

ExprRight == pc = "right" /\ SetSelf(expr_right(Self)) /\ UNCHANGED mvars

ExprApply == pc = "apply" /\ SetSelf(expr_apply(Self)) /\ UNCHANGED mvars

\* ------------------------------------- specification Spec: one Interpreter
\* Interpreter(line).expr() for any non-empty line of at most MaxLen characters
\* of Alphabet, or of at most MaxWideLen characters of WideAlphabet
Init ==
    /\ \E line \in (Lines(MaxLen) \cup WideLines(MaxWideLen)) \ {<<>>} :
          IsSelf(NewInterpreter(line))
    /\ mainpc = "expr"
    /\ stdout = <<>>
    /\ nread = 0

Next ==
    \/ ExprWhile
    \/ ExprFirst
    \/ ExprOp
    \/ ExprRight
    \/ ExprApply

Spec == Init /\ [][Next]_vars

\* ------------------------------------------ specification SpecMain: main()
\* main() has no Interpreter: before the first line, after a skipped line, and
\* after a print, from when on the old line and the old Interpreter are dead
\* (nothing reads them before the next input() replaces them)
NoInterpreter ==
    [text |-> <<>>, pos |-> 0, current_token |-> NoToken, current_char |-> None,
     result |-> PyNone, left_val |-> PyNone, op |-> NoToken, right |-> NoToken,
     pc |-> "idle", retval |-> PyNone, exc |-> NoExc, errsite |-> None, iters |-> 0]

\* Skipped with a slip: whitespace-only lines are skipped too
Skipped_Blank(line) == \A i \in 1..Len(line) : isspace(line[i])

\* line 164, "if not text": the lines main() skips
Skipped(line) == line = <<>>

\* MainInput with a slip: the accumulator is shared by the Interpreters, so
\* the value of the last evaluation is carried into the next
MainInput_SharedResult ==
    /\ mainpc = "input"
    /\ nread < MaxLines
    /\ \E line \in Lines(MaxMainLen) :
          IF Skipped(line)
          THEN /\ mainpc' = "input"
               /\ SetSelf([NoInterpreter EXCEPT !.text = line])
          ELSE /\ mainpc' = "expr"
               /\ SetSelf([NewInterpreter(line) EXCEPT
                               !.result = IF stdout = <<>> THEN PyNone
                                          ELSE stdout[Len(stdout)]])
    /\ nread' = nread + 1
    /\ UNCHANGED stdout

\* lines 160-166: input() returns a line; a skipped one gets no Interpreter,
\* any other gets one and expr() is entered
MainInput ==
    /\ mainpc = "input"
    /\ nread < MaxLines
    /\ \E line \in Lines(MaxMainLen) :
          IF Skipped(line)
          THEN /\ mainpc' = "input"
               /\ SetSelf([NoInterpreter EXCEPT !.text = line])
          ELSE /\ mainpc' = "expr"
               /\ SetSelf(NewInterpreter(line))
    /\ nread' = nread + 1
    /\ UNCHANGED stdout

\* lines 162-163: input() raises EOFError and the loop is left
MainEOF ==
    /\ mainpc = "input"
    /\ mainpc' = "exited"
    /\ UNCHANGED <<text, pos, current_char, current_token, result, left_val, op,
                   right, pc, retval, exc, errsite, iters, stdout, nread>>

\* lines 167-168: expr() has returned and its value is printed
MainPrint ==
    /\ mainpc = "expr"
    /\ pc = "returned"
    /\ stdout' = Append(stdout, retval)
    /\ mainpc' = "input"
    /\ SetSelf(NoInterpreter)
    /\ UNCHANGED nread

\* MainRaise with a slip: the exception is caught and the loop goes on
MainRaise_Caught ==
    /\ mainpc = "expr"
    /\ pc = "raised"
    /\ mainpc' = "input"
    /\ SetSelf(NoInterpreter)
    /\ UNCHANGED <<stdout, nread>>

\* line 167: the exception expr() raised is caught nowhere in main(): it
\* leaves main() and ends the process
MainRaise ==
    /\ mainpc = "expr"
    /\ pc = "raised"
    /\ mainpc' = "crashed"
    /\ UNCHANGED <<text, pos, current_char, current_token, result, left_val, op,
                   right, pc, retval, exc, errsite, iters, stdout, nread>>

InitMain ==
    /\ IsSelf(NoInterpreter)
    /\ mainpc = "input"
    /\ stdout = <<>>
    /\ nread = 0

NextMain ==
    \/ MainInput
    \/ MainEOF
    \/ ExprWhile
    \/ ExprFirst
    \/ ExprOp
    \/ ExprRight
    \/ ExprApply
    \/ MainPrint
    \/ MainRaise

SpecMain == InitMain /\ [][NextMain]_vars\* ------------------------------------------ reading a line as the spec does
\* The definitions below do not model the code: they read a line the way the
\* specification describes tokens and expressions, and the claims compare the
\* code's behaviour with them.
RefIsSpace(c) == c = " "

\* a decimal digit: an ASCII digit or, in WideAlphabet, U+0663
RefIsDigit(c) == c \in {"0", "1", "2", "3", "4", "5", "6", "7", "8", "9", "U+0663"}

\* a character str.isdigit() accepts: a decimal digit, or U+00B2, which is no
\* decimal digit; the code reads a run of such characters as one literal
RefStrIsDigit(c) == RefIsDigit(c) \/ c = "U+00B2"

RefIsOp(c) == c \in {"+", "-", "*", "/"}

RefDigit(c) ==
    CASE c = "0" -> 0 [] c = "1" -> 1 [] c = "2" -> 2 [] c = "3" -> 3
      [] c = "4" -> 4 [] c = "5" -> 5 [] c = "6" -> 6 [] c = "7" -> 7
      [] c = "8" -> 8 [] c = "9" -> 9 [] c = "U+0663" -> 3

RefOpType(c) ==
    CASE c = "+" -> PLUS [] c = "-" -> MINUS [] c = "*" -> TIMES [] c = "/" -> DIVIDE

\* the last index of the maximal run of digits of line that starts at index i
RECURSIVE RefRunEnd(_, _)
RefRunEnd(line, i) ==
    IF i < Len(line) /\ RefIsDigit(line[i + 1]) THEN RefRunEnd(line, i + 1) ELSE i

\* the first index of the maximal run of digits of line that ends at index j
RECURSIVE RefRunStart(_, _)
RefRunStart(line, j) ==
    IF j > 1 /\ RefIsDigit(line[j - 1]) THEN RefRunStart(line, j - 1) ELSE j

\* the base-10 value of the digits line[i..j]
RECURSIVE RefDecimal(_, _, _)
RefDecimal(line, i, j) ==
    IF j < i THEN 0 ELSE RefDecimal(line, i, j - 1) * 10 + RefDigit(line[j])

\* the tokens of line from index i on; a character of no token gives a token
\* of type "INVALID"
RECURSIVE RefLex(_, _)
RefLex(line, i) ==
    IF i > Len(line) THEN <<>>
    ELSE IF RefIsSpace(line[i]) THEN RefLex(line, i + 1)
    ELSE IF RefIsDigit(line[i])
    THEN <<Token(INTEGER, RefDecimal(line, i, RefRunEnd(line, i)))>>
         \o RefLex(line, RefRunEnd(line, i) + 1)
    ELSE IF RefIsOp(line[i])
    THEN <<Token(RefOpType(line[i]), line[i])>> \o RefLex(line, i + 1)
    ELSE <<Token("INVALID", line[i])>> \o RefLex(line, i + 1)

RefTokens(line) == RefLex(line, 1)

\* n0 op1 n1 ... opk nk with k >= 1
RefValidExpr(toks) ==
    /\ Len(toks) >= 3
    /\ Len(toks) % 2 = 1
    /\ \A i \in 1..Len(toks) :
          IF i % 2 = 1 THEN toks[i].type = INTEGER ELSE toks[i].type \in OperatorTypes

\* some Divide is followed by the Integer 0
RefDividesByZero(toks) ==
    \E i \in 1..(Len(toks) - 1) :
        /\ toks[i].type = DIVIDE
        /\ toks[i + 1].type = INTEGER
        /\ toks[i + 1].value = 0

\* one operator applied in Python's arithmetic: on ints exactly, on a float
\* with the rounding of a double
RefApply(acc, type, n) ==
    CASE type = PLUS -> PyAdd(acc, n)
      [] type = MINUS -> PySub(acc, n)
      [] type = TIMES -> PyMul(acc, n)
      [] type = DIVIDE -> PyTrueDiv(acc, n)

\* (...((n0 op1 n1) op2 n2)...) opk nk of a valid expression that does not
\* divide by 0
RECURSIVE RefFold(_, _)
RefFold(toks, k) ==
    IF k = 0 THEN PyInt(toks[1].value)
    ELSE RefApply(RefFold(toks, k - 1), toks[2 * k].type, toks[2 * k + 1].value)

RefOps(toks) == (Len(toks) - 1) \div 2

\* the number v is 0, 0.0 or -0.0
RefIsZero(v) == v \in {PyInt(0), FloatZero(1), FloatZero(-1)}

Done == Finished(Self)

\* ------------------------------------------------------------------ claims

\* C1: every syntactically valid expression without a division by zero
\* evaluates to its strict left fold, whatever the intermediate results are.
\* The code does not: an intermediate result of 0 is taken for "no result yet"
\* (line 124), e.g. on "1-1+1".
C1_LeftFold ==
    (Done /\ RefValidExpr(RefTokens(text)) /\ ~RefDividesByZero(RefTokens(text)))
    => /\ pc = "returned"
       /\ retval = RefFold(RefTokens(text), RefOps(RefTokens(text)))

\* a line that is a single integer literal, whitespace around it allowed
RefSingleInteger(line) ==
    Len(RefTokens(line)) = 1 /\ RefTokens(line)[1].type = INTEGER

\* C2 as stated: a line that is a single integer literal n evaluates to n.
C2_SingleInteger ==
    (Done /\ RefSingleInteger(text))
    => pc = "returned" /\ retval = PyInt(RefTokens(text)[1].value)

\* C2 amended: when the token fetched after a right-hand operand is EOF, expr()
\* applies the pending operation and, unless that is a division by zero,
\* returns the accumulator; a line that is a single integer literal raises the
\* parse error.
C2_EndOfInput ==
    /\ [](Done /\ RefSingleInteger(text) => pc = "raised" /\ exc = ParseError)
    /\ [][(pc = "apply" /\ current_token.type = EOF)
            => \/ pc' = "raised" /\ exc' = ZeroDivisionError
                  /\ op.type = DIVIDE /\ right.value = 0
               \/ pc' = "while" /\ current_token'.type = EOF]_vars
    /\ [][(pc = "while" /\ current_token.type = EOF)
            => pc' = "returned" /\ retval' = result]_vars

\* C2 witness: a single integer literal with whitespace around it has been
\* evaluated, the token fetched after it being EOF
C2_Witness ==
    /\ Done
    /\ RefSingleInteger(text)
    /\ Len(text) = 3
    /\ text[1] = " "
    /\ text[3] = " "
    /\ current_token.type = EOF

\* C3: an Integer in operator position makes the evaluation fail with the
\* parse error.  The code lets it pass: lines 134-141 and 147-154 have no else.
C3_OperatorExpected ==
    [][(pc = "op" /\ current_token.type = INTEGER)
         => pc' = "raised" /\ exc' = ParseError]_vars

\* C4 as stated: after a failing line the loop goes on to read the next line.
C4_ErrorsNotFatal ==
    [][(mainpc = "expr" /\ pc = "raised") => mainpc' = "input"]_vars

\* C4 amended: an exception raised by expr() is caught nowhere in main(): it
\* ends the process, after which nothing is read or printed; the loop goes on
\* to the next line only after an evaluation that returned, whose value it
\* prints.
C4_ErrorEndsProcess ==
    /\ [](mainpc = "crashed"
            => /\ pc = "raised"
               /\ exc.type \in {"Exception", "ZeroDivisionError", "ValueError"})
    /\ [][/\ (mainpc = "expr" /\ pc = "raised") => mainpc' = "crashed"
          /\ mainpc = "crashed"
               => mainpc' = "crashed" /\ nread' = nread /\ stdout' = stdout
          /\ (mainpc = "expr" /\ pc = "returned")
               => mainpc' = "input" /\ stdout' = Append(stdout, retval)]_vars

\* C4 witness: the second line failed after the first one was printed
C4_Witness == mainpc = "crashed" /\ nread = 2 /\ Len(stdout) = 1

\* empty or made of whitespace only
RefBlank(line) == \A i \in 1..Len(line) : RefIsSpace(line[i])

\* C5 as stated: an empty or whitespace-only line gets no Interpreter.
C5_BlankLinesSkipped ==
    [][(nread' = nread + 1 /\ RefBlank(text'))
         => pc' = "idle" /\ mainpc' = "input"]_vars

\* C5 amended: an empty line is skipped (no Interpreter, no result, no error);
\* every other line, a whitespace-only one included, gets an Interpreter and
\* expr() runs on it, and on a whitespace-only line expr() raises the parse
\* error.
C5_EmptyLineSkipped ==
    /\ [][nread' = nread + 1
            => IF text' = <<>>
               THEN pc' = "idle" /\ mainpc' = "input" /\ stdout' = stdout
               ELSE pc' = "while" /\ mainpc' = "expr" /\ pos' = 0]_vars
    /\ []((Done /\ RefBlank(text)) => pc = "raised" /\ exc = ParseError)

\* C5 witness: an empty line was skipped, then a whitespace-only line failed
C5_Witness ==
    /\ nread = 2
    /\ mainpc = "crashed"
    /\ text # <<>>
    /\ RefBlank(text)

\* C6: a valid expression that divides by the Integer 0 fails with
\* ZeroDivisionError.  The code raises the parse error instead when the
\* accumulator is 0 before the division (the slip of C1), e.g. on "1-1/0".
C6_DivisionByZero ==
    (Done /\ RefValidExpr(RefTokens(text)) /\ RefDividesByZero(RefTokens(text)))
    => pc = "raised" /\ exc = ZeroDivisionError

\* position p of toks is an operand position with no Integer in it: the first
\* position or the one after an operator, holding an operator or nothing
RefMissingAt(toks, p) ==
    /\ p = 1 \/ (p - 1 <= Len(toks) /\ toks[p - 1].type \in OperatorTypes)
    /\ p = Len(toks) + 1 \/ toks[p].type \in OperatorTypes

RefOperandMissing(toks) == \E p \in 1..(Len(toks) + 1) : RefMissingAt(toks, p)

\* some Divide followed by the Integer 0 lies wholly before position p
RefDividesByZeroBefore(toks, p) ==
    \E i \in 1..(Len(toks) - 1) :
        /\ i + 1 < p
        /\ toks[i].type = DIVIDE
        /\ toks[i + 1].type = INTEGER
        /\ toks[i + 1].value = 0

\* C7 as stated: a token in operand position that is no Integer makes the
\* evaluation fail with the parse error.
C7_ParseErrorOnly ==
    (Done /\ RefOperandMissing(RefTokens(text)))
    => pc = "raised" /\ exc = ParseError

\* a literal that int() rejects, one with a character in it that str.isdigit()
\* accepts and that is no decimal digit, stands before position p of toks
RefBadLiteralBefore(toks, p) ==
    \E i \in 1..Len(toks) :
        /\ i < p
        /\ toks[i].type = "INVALID"
        /\ RefStrIsDigit(toks[i].value)

\* C7 amended: a token in operand position that is no Integer makes the
\* evaluation fail, with no value returned: with the parse error, or with
\* ZeroDivisionError when a division by the Integer 0 stands before that
\* token, or with the ValueError of int() when a literal that int() rejects
\* (as one with U+00B2 in it) stands before it.
C7_OperandExpected ==
    Done => LET toks == RefTokens(text)
            IN  RefOperandMissing(toks)
                => /\ pc = "raised"
                   /\ retval = PyNone
                   /\ \/ exc = ParseError
                      \/ /\ exc = ZeroDivisionError
                         /\ \A p \in 1..(Len(toks) + 1) :
                               RefMissingAt(toks, p)
                               => RefDividesByZeroBefore(toks, p)
                      \/ /\ exc.type = "ValueError"
                         /\ \A p \in 1..(Len(toks) + 1) :
                               RefMissingAt(toks, p)
                               => RefBadLiteralBefore(toks, p)

\* C7 witness: a line ending in an operator failed in eat(INTEGER)
C7_Witness ==
    /\ pc = "raised"
    /\ errsite = "eat"
    /\ Len(RefTokens(text)) >= 2
    /\ RefTokens(text)[1].type = INTEGER
    /\ RefTokens(text)[Len(RefTokens(text))].type \in OperatorTypes

\* the index of the first character of line at or after index i that is no
\* whitespace, Len(line) + 1 if there is none
RECURSIVE RefSkip(_, _)
RefSkip(line, i) ==
    IF i <= Len(line) /\ RefIsSpace(line[i]) THEN RefSkip(line, i + 1) ELSE i

\* the next step of expr() begins by calling get_next_token
LexerCalled ==
    \/ pc = "first"
    \/ pc = "op" /\ current_token.type \in OperatorTypes
    \/ pc = "right" /\ current_token.type = INTEGER

\* the first character get_next_token finds after the whitespace at the cursor
\* is a character of no token
AtInvalidChar ==
    /\ RefSkip(text, pos + 1) <= Len(text)
    /\ ~RefIsDigit(text[RefSkip(text, pos + 1)])
    /\ ~RefIsOp(text[RefSkip(text, pos + 1)])

\* C8 as stated: the error get_next_token raises on a character of no token is
\* distinguishable from the syntax error, the exception eat() raises.
C8_LexicalErrorDistinct ==
    (pc = "raised" /\ errsite = "get_next_token") => exc # ParseError

\* the last index of the maximal run of characters str.isdigit() accepts that
\* starts at index i of line, and the first index of the one that ends at j
RECURSIVE RefStrRunEnd(_, _)
RefStrRunEnd(line, i) ==
    IF i < Len(line) /\ RefStrIsDigit(line[i + 1]) THEN RefStrRunEnd(line, i + 1) ELSE i

RECURSIVE RefStrRunStart(_, _)
RefStrRunStart(line, j) ==
    IF j > 1 /\ RefStrIsDigit(line[j - 1]) THEN RefStrRunStart(line, j - 1) ELSE j

\* C8 amended: when get_next_token, after skipping whitespace, finds a character
\* that is no decimal digit and none of + - * /, it raises one of two
\* exceptions, neither of which carries the position.  If str.isdigit() rejects
\* the character (as "@"), it is the generic exception 'Error parsing input',
\* the same one eat() raises for a syntax error; it does not carry the
\* character, and the cursor is left on the offending character.  If
\* str.isdigit() accepts the character (as U+00B2), integer() consumes the
\* whole run of characters str.isdigit() accepts and int() raises ValueError,
\* which is distinguishable from the syntax error; its message quotes that
\* run, and the cursor is left just after the run.  No other function than
\* integer() raises ValueError.
C8_LexicalError ==
    /\ [][(LexerCalled /\ AtInvalidChar)
            => LET i == RefSkip(text, pos + 1)
                   j == RefStrRunEnd(text, i)
               IN  /\ pc' = "raised"
                   /\ current_token' = current_token
                   /\ IF RefStrIsDigit(text[i])
                      THEN /\ exc' = ValueError(SubSeq(text, i, j))
                           /\ exc' # ParseError
                           /\ errsite' = "integer"
                           /\ pos' = j
                           /\ current_char' = IF j = Len(text) THEN None ELSE text[j + 1]
                      ELSE /\ exc' = ParseError
                           /\ errsite' = "get_next_token"
                           /\ pos' = i - 1
                           /\ current_char' = text[i]]_vars
    /\ []((pc = "raised" /\ errsite = "eat") => exc = ParseError)
    /\ []((pc = "raised" /\ errsite = "get_next_token")
            => exc = ParseError /\ current_char \notin {None, " "}
               /\ ~RefStrIsDigit(current_char) /\ ~RefIsOp(current_char))
    /\ []((pc = "raised" /\ errsite = "integer")
            => /\ exc.type = "ValueError"
               /\ pos >= 1
               /\ exc.literal = SubSeq(text, RefStrRunStart(text, pos), pos)
               /\ \A i \in 1..Len(exc.literal) : RefStrIsDigit(exc.literal[i])
               /\ pos = Len(text) \/ ~RefStrIsDigit(text[pos + 1])
               /\ current_char = IF pos = Len(text) THEN None ELSE text[pos + 1])
    /\ [](exc.type = "ValueError" => pc = "raised" /\ errsite = "integer")

\* C8 witness: after an Integer token and whitespace, get_next_token found
\* U+00B2 followed by a decimal digit; int() raised ValueError on the run of
\* the two and the cursor is at the end of the line
C8_Witness ==
    /\ pc = "raised"
    /\ errsite = "integer"
    /\ exc = ValueError(<<"U+00B2", "1">>)
    /\ pos = Len(text)
    /\ pos >= 4
    /\ text[pos - 2] = " "
    /\ current_token.type = INTEGER

\* line with one space before and after each operator and each character of
\* no token, and one at both ends: the same tokens, more whitespace (the
\* characters of a run the code reads as one literal, those str.isdigit()
\* accepts, are never separated)
RECURSIVE RefSpread(_, _)
RefSpread(line, i) ==
    IF i > Len(line) THEN <<" ">>
    ELSE IF RefStrIsDigit(line[i]) \/ RefIsSpace(line[i])
    THEN <<line[i]>> \o RefSpread(line, i + 1)
    ELSE <<" ", line[i], " ">> \o RefSpread(line, i + 1)

RefPadded(line) == <<" ">> \o RefSpread(line, 1)

\* line with all its whitespace removed, but for one space where whitespace
\* separates two characters the code would read as one literal: the same
\* tokens, least whitespace.
\* out is what is kept of line[1..i-1], gap says whitespace was just dropped
RECURSIVE RefCompactLoop(_, _, _, _)
RefCompactLoop(line, i, out, gap) ==
    IF i > Len(line) THEN out
    ELSE IF RefIsSpace(line[i]) THEN RefCompactLoop(line, i + 1, out, TRUE)
    ELSE IF gap /\ out # <<>> /\ RefStrIsDigit(out[Len(out)]) /\ RefStrIsDigit(line[i])
    THEN RefCompactLoop(line, i + 1, out \o <<" ", line[i]>>, FALSE)
    ELSE RefCompactLoop(line, i + 1, Append(out, line[i]), FALSE)

RefCompact(line) == RefCompactLoop(line, 1, <<>>, FALSE)

\* C9: whitespace between tokens is insignificant: a line gives the outcome
\* (the value returned, or the exception raised) that expr() gives on the same
\* tokens written with the least whitespace, so that all the lines that write
\* the same tokens give one outcome; and a line written with the least
\* whitespace gives the outcome of the same tokens written with whitespace
\* before, between and after all of them.  (The empty line is no input of
\* expr(): Interpreter cannot be built on it.)
C9_WhitespaceInsignificant ==
    Done => LET compact == RefCompact(text)
            IN  IF compact = text
                THEN Outcome(Self) = Outcome(expr(RefPadded(text)))
                ELSE compact # <<>> => Outcome(Self) = Outcome(expr(compact))

\* C9 witness: a line with whitespace inside and around a valid expression has
\* returned a value
C9_Witness ==
    /\ pc = "returned"
    /\ retval.type = "int"
    /\ text[1] = " "
    /\ text[Len(text)] = " "
    /\ RefCompact(text) # text
    /\ Len(RefCompact(text)) = 3

\* C10: an Integer token stands for a maximal run of decimal digits.  Whenever
\* the cursor is on a decimal digit, get_next_token returns the Integer token
\* whose value is the base-10 value of the maximal run of decimal digits
\* starting there, and leaves the cursor just after the run, on the first
\* character that is no decimal digit or at the end of the line; and whenever
\* the pending token is an Integer (and no later call of get_next_token has
\* failed, moving the cursor on), its value is that of the maximal run of
\* decimal digits ending just before the cursor, no decimal digit following.
\* The code does not stop at the first character that is no decimal digit:
\* integer() goes on over every character str.isdigit() accepts (line 62), and
\* int() raises ValueError on the run (line 65), e.g. on "1" followed by
\* U+00B2.
C10_IntegerToken ==
    /\ (Done \/ ~RefIsDigit(current_char))
       \/ LET r == get_next_token(Self)
              j == RefRunEnd(text, pos + 1)
          IN  /\ r.exc = NoExc
              /\ r.token.type = INTEGER
              /\ r.token.value = RefDecimal(text, pos + 1, j)
              /\ r.self.pos = j
              /\ r.self.current_char = IF j = Len(text) THEN None ELSE text[j + 1]
              /\ j = Len(text) \/ ~RefIsDigit(text[j + 1])
    /\ (current_token.type = INTEGER /\ errsite \notin {"get_next_token", "integer"})
       => /\ pos >= 1
          /\ RefIsDigit(text[pos])
          /\ pos = Len(text) \/ ~RefIsDigit(text[pos + 1])
          /\ current_char = IF pos = Len(text) THEN None ELSE text[pos + 1]
          /\ current_token.value = RefDecimal(text, RefRunStart(text, pos), pos)

\* C11: EndOfInput is absorbing for the tokenizer.  get_next_token returns EOF
\* only with the cursor at the end of the text (pos = len(text), current_char
\* None), and whenever the cursor is there, a call of get_next_token on this
\* Interpreter returns EOF, raises nothing and leaves the Interpreter as it
\* was, so that every later call does the same.
C11_EOFAbsorbing ==
    /\ current_token.type = EOF => current_char = None /\ pos = Len(text)
    /\ current_char = None
       => LET r == get_next_token(Self)
              r2 == get_next_token(r.self)
          IN  /\ r.exc = NoExc
              /\ r.token.type = EOF
              /\ r.self = Self
              /\ r2.exc = NoExc
              /\ r2.token.type = EOF
              /\ r2.self = Self

\* C11 witness: get_next_token has returned EOF after a whole expression was
\* read, and expr() has returned
C11_Witness ==
    /\ pc = "returned"
    /\ current_token.type = EOF
    /\ current_char = None
    /\ right.type = INTEGER
    /\ retval.type = "int"

\* the non-EOF tokens that successive calls of get_next_token return from s
\* on, counted up to fuel calls
RECURSIVE LexCount(_, _)
LexCount(s, fuel) ==
    IF fuel = 0 THEN 0
    ELSE LET r == get_next_token(s)
         IN  IF r.exc # NoExc \/ r.token.type = EOF THEN 0
             ELSE 1 + LexCount(r.self, fuel - 1)

\* C12: the cursor only moves forward.  No step of expr() decreases pos; a
\* call of get_next_token in any reachable state never decreases pos and, when
\* it returns a token other than EOF, strictly increases it; hence the calls
\* made from a fresh Interpreter return at most len(text) non-EOF tokens.
C12_CursorForward ==
    /\ [][pos' >= pos]_vars
    /\ [](LET r == get_next_token(Self)
          IN  /\ r.self.pos >= pos
              /\ r.self.pos <= Len(text)
              /\ (r.exc = NoExc /\ r.token.type # EOF) => r.self.pos > pos)
    /\ []((pc = "while" /\ iters = 0)
          => LexCount(Self, Len(text) + 1) <= Len(text))

\* C12 witness: every character of a line of MaxLen characters was a token of
\* its own, and expr() has returned with the cursor at the end
C12_Witness ==
    /\ pc = "returned"
    /\ Len(text) = MaxLen
    /\ pos = Len(text)
    /\ LexCount(NewInterpreter(text), Len(text) + 1) = Len(text)

\* C13: whenever expr() returns normally, the value returned is a number (the
\* result of at least one applied operator), never None.
C13_ReturnsNumber ==
    pc = "returned" => retval.type \in {"int", "float"}

\* a Python number as mant * 2^exp, mant in bits
RefMagnitude(v) ==
    IF v.type = "int" THEN [mant |-> BitsOf(Abs(v.num)), exp |-> 0]
    ELSE [mant |-> v.mant, exp |-> v.exp]

RefSign(v) == IF v.type = "int" THEN Sign(v.num) ELSE v.sign

\* for a float r # 0, a number a and an int b > 0: diff is |r * b| - |a| or
\* |a| - |r * b|, whichever is not negative, and half is b times half a unit
\* in the last place of r; both as multiples of one power of 2, in limbs, of
\* one length
RefQuotientError(r, a, b) ==
    LET A == RefMagnitude(a)
        e == (IF r.exp < A.exp THEN r.exp ELSE A.exp) - 1
        rb == LimbsMul(LimbsOf(r.mant \o Zeros(r.exp - e)), b)
        ab == LimbsOf(A.mant \o Zeros(A.exp - e))
        hb == LimbsOf(BitsOf(b) \o Zeros(r.exp - 1 - e))
        w == IF Len(rb) >= Len(ab) /\ Len(rb) >= Len(hb) THEN Len(rb)
             ELSE IF Len(ab) >= Len(hb) THEN Len(ab) ELSE Len(hb)
        R == Zeros(w - Len(rb)) \o rb
        Q == Zeros(w - Len(ab)) \o ab
    IN  [diff |-> IF LimbsLess(R, Q) THEN LimbsSub(Q, R) ELSE LimbsSub(R, Q),
         half |-> Zeros(w - Len(hb)) \o hb]

\* the float r is a / b, exactly
RefExactQuotient(r, a, b) ==
    IF RefIsZero(a) THEN r.mant = <<>>
    ELSE /\ r.mant # <<>>
         /\ r.sign = RefSign(a)
         /\ \A i \in 1..Len(RefQuotientError(r, a, b).diff) :
               RefQuotientError(r, a, b).diff[i] = 0

\* the float r is a double nearest to a / b: a 53-bit significand, of the
\* sign of a, at most half a unit in its last place away from a / b, and with
\* an even significand when it is exactly that far away
RefNearestQuotient(r, a, b) ==
    IF RefIsZero(a) THEN r = FloatZero(RefSign(a))
    ELSE /\ Len(r.mant) = 53
         /\ r.mant[1] = 1
         /\ r.sign = RefSign(a)
         /\ LET q == RefQuotientError(r, a, b)
            IN  /\ ~LimbsLess(q.half, q.diff)
                /\ q.diff = q.half => r.mant[53] = 0

\* C14 as stated: division sets the accumulator to the exact quotient a / b.
C14_ExactQuotient ==
    [][(pc = "apply" /\ op.type = DIVIDE /\ right.value # 0)
       => /\ pc' = "while"
          /\ result'.type = "float"
          /\ RefExactQuotient(result', left_val, right.value)]_vars

\* C14 amended: division is non-truncating but rounded.  Whenever expr()
\* applies a Divide to an accumulator a and a non-zero operand b, both below
\* 2^53 in magnitude and the quotient within the range of a normal double (as
\* they are on every line explored), the new accumulator is a float, the
\* double nearest to a / b: at most half a unit in the last place of its
\* 53-bit significand away from a / b, a tie going to the even significand.
\* It is not the exact quotient in general ("1 / 10").  For an int a it is the
\* exact quotient when b divides a ("8 / 2" equals 4) and differs from
\* floor(a / b) when b does not ("7 / 2" is 3.5, not 3); for every a it is the
\* exact quotient when b is a power of 2.
C14_TrueDivision ==
    [][(pc = "apply" /\ op.type = DIVIDE /\ right.value # 0)
       => LET a == left_val
              b == right.value
          IN  /\ pc' = "while"
              /\ result'.type = "float"
              /\ RefNearestQuotient(result', a, b)
              /\ (a.type = "int" /\ a.num % b = 0)
                 => /\ RefExactQuotient(result', a, b)
                    /\ RefExactQuotient(result', PyInt(a.num \div b), 1)
              /\ (a.type = "int" /\ a.num % b # 0)
                 => ~RefExactQuotient(result', PyInt(a.num \div b), 1)
              /\ (\E k \in 0..19 : b = 2^k) => RefExactQuotient(result', a, b)]_vars

\* C14 witness: "1/10" has returned the double nearest to one tenth,
\* 0x1.999999999999ap-4, which is not one tenth
C14_Witness ==
    /\ pc = "returned"
    /\ text = <<"1", "/", "1", "0">>
    /\ retval = PyFloat(1,
                      <<1, 1, 0, 0, 1, 1, 0, 0, 1, 1, 0, 0, 1, 1, 0, 0, 1, 1,
                      0, 0, 1, 1, 0, 0, 1, 1, 0, 0, 1, 1, 0, 0, 1, 1, 0, 0,
                      1, 1, 0, 0, 1, 1, 0, 0, 1, 1, 0, 0, 1, 1, 0, 1, 0>>,
                      -56)
    /\ ~RefExactQuotient(retval, PyInt(1), 10)

\* C15: evaluation is stateless across lines.  Whatever main() has read,
\* printed and skipped before, the Interpreter evaluating the current line is
\* in a state of the evaluation of that line by a fresh Interpreter, and ends
\* as that one ends: with the same value returned or the same exception.  So
\* two evaluations of one line agree, whatever was evaluated in between.
C15_Stateless ==
    mainpc \in {"expr", "crashed"}
    => /\ expr_run(Self) = expr(text)
       /\ Done => Outcome(Self) = Outcome(expr(text))

\* C15 witness: "1/2" is the only line of main() that gives 0.5; it was
\* evaluated and printed, then another line was, and now "1/2" has been
\* evaluated again and has returned 0.5 again
C15_Witness ==
    /\ mainpc = "expr"
    /\ pc = "returned"
    /\ nread = 3
    /\ Len(stdout) = 2
    /\ stdout[1] = PyFloat(1, <<1>> \o Zeros(52), -53)
    /\ stdout[2].type = "int"
    /\ text = <<"1", "/", "2">>
    /\ retval = stdout[1]

\* the accumulator of the reference fold is non-zero after each of the first
\* k - 1 operators of a valid expression of k operators
RefNoZeroBeforeLast(toks) ==
    \A j \in 1..(RefOps(toks) - 1) : ~RefIsZero(RefFold(toks, j))

\* C16: a valid expression without a division by zero whose accumulator is
\* non-zero after each operator but possibly the last evaluates to its strict
\* left fold, all four operators alike, no precedence.
C16_LeftFoldNonZero ==
    [](Done => LET toks == RefTokens(text)
               IN  (/\ RefValidExpr(toks)
                    /\ ~RefDividesByZero(toks)
                    /\ RefNoZeroBeforeLast(toks))
                   => /\ pc = "returned"
                      /\ retval = RefFold(toks, RefOps(toks)))

\* C16 witness: "2+1*2" has returned (2 + 1) * 2 = 6, not 2 + (1 * 2) = 4
C16_Witness ==
    /\ pc = "returned"
    /\ text = <<"2", "+", "1", "*", "2">>
    /\ retval = PyInt(6)

\* C17: the cursor stays inside the text.  In every reachable state of an
\* Interpreter built on a non-empty line, 0 <= pos <= len(text), current_char
\* is text[pos] when pos < len(text) and is None exactly when pos = len(text).
\* pos never decreases (C12) and advance() adds one to it, so pos <= len(text)
\* in every state also says that advance() was never called with current_char
\* None.  A call of get_next_token in any reachable state keeps all of this.
C17_CursorInText ==
    [](/\ Len(text) > 0
       /\ pos \in 0..Len(text)
       /\ current_char = (IF pos < Len(text) THEN text[pos + 1] ELSE None)
       /\ (current_char = None) <=> (pos = Len(text))
       /\ Done \/ LET r == get_next_token(Self).self
                  IN  /\ r.pos \in pos..Len(text)
                      /\ r.current_char
                           = (IF r.pos < Len(text) THEN text[r.pos + 1] ELSE None))

\* C17 witness: the cursor has reached the end of a line that ends in
\* whitespace: pos = len(text), current_char is None, and expr() has returned
C17_Witness ==
    /\ pc = "returned"
    /\ Len(text) = MaxLen
    /\ text[Len(text)] = " "
    /\ pos = Len(text)
    /\ current_char = None

\* steps expr() can still take at most from s: six for every pass of the loop
\* not yet begun, and those left in the pass it is in
RefStepsLeft(s) ==
    6 * (Len(s.text) - s.iters)
    + (CASE s.pc = "first" -> 5 [] s.pc = "op" -> 4 [] s.pc = "right" -> 3
         [] s.pc = "apply" -> 2 [] s.pc = "while" -> 1 [] OTHER -> 0)

\* C18: expr() terminates on every non-empty line: it returns or raises.
\* Every pass of its while loop ends in an exception, or with pos strictly
\* larger than at the loop test, or with current_token EOF (and then the loop
\* is left), also when the accumulator is None or 0 and when the token in
\* operator position is no operator; no more than len(text) passes are ever
\* begun; and until expr() has returned or raised it has a next step, which
\* leaves fewer steps to take than there were.
C18_Terminates ==
    [](/\ iters <= Len(text)
       /\ RefStepsLeft(Self) >= 0
       /\ (pc = "while" /\ current_token.type # EOF)
          => LET t == expr_iteration(Self)
             IN  \/ t.pc = "raised"
                 \/ t.pos > pos
                 \/ t.current_token.type = EOF
       /\ Done \/ /\ pc \in {"while", "first", "op", "right", "apply"}
                  /\ RefStepsLeft(expr_step(Self)) < RefStepsLeft(Self))

\* C18 witness: expr() has ended in its second pass of the loop, which began
\* with the accumulator 0: the first pass returned to the loop test with 0 and
\* a token other than EOF pending, the second one raised
C18_Witness ==
    /\ pc = "raised"
    /\ iters = 2
    /\ result = PyInt(0)
    /\ op.type \in OperatorTypes
    /\ pos = Len(text)

\* some character of the line is neither whitespace, nor a digit, nor one of
\* + - * /
RefHasInvalidChar(line) ==
    \E i \in 1..Len(line) :
        ~RefIsSpace(line[i]) /\ ~RefIsDigit(line[i]) /\ ~RefIsOp(line[i])

\* C19: expr() returns only with the whole line read: when it has returned,
\* the cursor is at the end of the text (pos = len(text), current_char None)
\* and current_token is EOF; so a line with a character of no token anywhere
\* in it never returns: its evaluation always ends in an exception.
C19_ReturnsAtEnd ==
    [](/\ pc = "returned"
          => /\ pos = Len(text)
             /\ current_char = None
             /\ current_token.type = EOF
             /\ ~RefHasInvalidChar(text)
       /\ (Done /\ RefHasInvalidChar(text)) => pc = "raised" /\ exc # NoExc)

\* C19 witness: a valid expression followed by a character of no token,
\* "1+1@" and the like, has ended in the exception
C19_Witness ==
    /\ pc = "raised"
    /\ exc = ParseError
    /\ Len(text) = 4
    /\ RefValidExpr(RefTokens(SubSeq(text, 1, 3)))
    /\ text[4] = "@"
    /\ result.type = "NoneType"

\* the token the text holds after the cursor, EOF when only whitespace is left
RefNextToken ==
    IF RefSkip(text, pos + 1) > Len(text) THEN Token(EOF, None)
    ELSE RefLex(text, RefSkip(text, pos + 1))[1]

\* C20: expr() keeps one token of lookahead.  With an Integer pending as the
\* right operand, eat(INTEGER) reads the token after it before the operator is
\* applied: a character of no token there raises the parse error with the
\* accumulator untouched, also when the operand is the zero divisor of a
\* Divide; otherwise the operator is applied next, with the operand in right
\* and the token after it already in current_token.  So a division by zero is
\* only ever raised with the token after the divisor read.
\* The code keeps the lookahead, but the exception is not always the parse
\* error: when the character is one str.isdigit() accepts, as U+00B2, integer()
\* takes it for a literal and int() raises ValueError (the slip of C10), e.g.
\* on "1/1 " followed by U+00B2.
C20_Lookahead ==
    /\ [][(pc = "right" /\ current_token.type = INTEGER)
          => IF AtInvalidChar
             THEN /\ pc' = "raised"
                  /\ exc' = ParseError
                  /\ errsite' = "get_next_token"
                  /\ result' = result
             ELSE /\ pc' = "apply"
                  /\ right' = current_token
                  /\ result' = result
                  /\ current_token'.type = RefNextToken.type
                  /\ current_token'.value = RefNextToken.value]_vars
    /\ [][pc' = "apply" => pc = "right"]_vars
    /\ []((pc = "apply" \/ exc = ZeroDivisionError)
          => /\ right.type = INTEGER
             /\ current_token.type \in OperatorTypes \cup {INTEGER, EOF}
             /\ current_token.type = EOF => pos = Len(text)
             /\ current_token.type = INTEGER
                => current_token.value = RefDecimal(text, RefRunStart(text, pos), pos)
             /\ current_token.type \in OperatorTypes
                => current_token.value = text[pos])
    /\ [](exc = ZeroDivisionError => pc = "raised" /\ errsite = "expr")
====
